---- MODULE Spec2Model ----
(***************************************************************************)
(* Retrieval-and-extraction pipeline of the Legal Documentation Assistant: *)
(* the chunk store (document_embedding.py), the retriever                  *)
(* (document_retrieval.py), the span extractor and query orchestrator      *)
(* (chatbot_model.py) and the query endpoint (app.py).                     *)
(*                                                                         *)
(* Texts are sequences of one-character strings.  Distances and            *)
(* similarities are integers in tenths (ScaleOne = 1.0).  Python's None    *)
(* and the empty list are both the empty sequence where the code only      *)
(* tests truthiness.                                                       *)
(***************************************************************************)
EXTENDS Integers, Sequences, FiniteSets, TLC

VARIABLES store, last, process, clock, ingest, handlers, docsdir

\* the state of the Flask process of app.py: the instances it has built, the
\* clock it reads, the /api/embed-documents request in progress and the
\* request threads in progress, and the files of its ./docs directory
server == <<process, clock, ingest, handlers, docsdir>>

vars == <<store, last, process, clock, ingest, handlers, docsdir>>

(***************************************************************************)
(* Bounds of the model.                                                    *)
(***************************************************************************)
\* largest top_k a caller of retrieve_documents passes
MaxTopK == 2
\* the scoring window: 512 tokens in the source, scaled down
WindowScaled == 8
\* the number of start / end candidates: 10 in the source, scaled down
CandidatesScaled == 2

(***************************************************************************)
(* Text: Python str operations used by the pipeline.                       *)
(***************************************************************************)
IsSpace(c) == c \in {" ", "\n"}

RECURSIVE LStrip(_)
LStrip(s) == IF s # <<>> /\ IsSpace(Head(s)) THEN LStrip(Tail(s)) ELSE s

RECURSIVE RStrip(_)
RStrip(s) ==
    IF s # <<>> /\ IsSpace(s[Len(s)]) THEN RStrip(SubSeq(s, 1, Len(s) - 1)) ELSE s

\* str.strip()
Strip(s) == RStrip(LStrip(s))

\* str.split('\n'): the pieces between newlines, empty pieces kept
RECURSIVE SplitLinesFrom(_, _)
SplitLinesFrom(s, cur) ==
    IF s = <<>> THEN <<cur>>
    ELSE IF Head(s) = "\n" THEN <<cur>> \o SplitLinesFrom(Tail(s), <<>>)
    ELSE SplitLinesFrom(Tail(s), Append(cur, Head(s)))

SplitLines(s) == SplitLinesFrom(s, <<>>)

\* sep.join(parts)
RECURSIVE Join(_, _)
Join(sep, parts) ==
    IF parts = <<>> THEN <<>>
    ELSE IF Len(parts) = 1 THEN parts[1]
    ELSE parts[1] \o sep \o Join(sep, Tail(parts))

(***************************************************************************)
(* The chunk store: the ChromaDB collection "document_collection" under    *)
(* ./chroma_db, shared by document_embedding.collection and by             *)
(* EnhancedQAModel.collection.  A set of rows [id, text, meta].            *)
(***************************************************************************)
Ids == {"doc_0", "doc_1"}

T_empty == <<>>
T_short == <<"x", " ", "y">>
T_two   == <<"x", " ", "y", " ", "z", "\n", "z", " ", "y">>
Texts == {T_empty, T_short, T_two}

M_a    == [source |-> "a.txt"]
M_text == [kind |-> "note", text |-> T_short]
Metas  == {M_a, M_text}

default_metadata == [source |-> "unknown"]

\* 1.0 in tenths
ScaleOne == 10
\* distances the embedding index reports, in tenths (12: a distance above 1)
Distances == {1, 3, 12}

StoreIds(st) == {r.id : r \in st}
RowsOf(st, id) == {r \in st : r.id = id}

Range(s) == {s[i] : i \in 1..Len(s)}
Min(a, b) == IF a < b THEN a ELSE b
NoDup(s) == \A i, j \in 1..Len(s) : s[i] = s[j] => i = j

\* an add that pairs what it is given up to the shortest list
CollectionAddUnchecked(st, ids, texts, metadatas) ==
    [raised |-> ~NoDup(ids),
     store |-> IF ~NoDup(ids) THEN st
               ELSE st \cup {[id |-> ids[i], text |-> texts[i], meta |-> metadatas[i]] :
                               i \in {j \in 1..Min(Len(ids), Min(Len(texts), Len(metadatas))) :
                                         ids[j] \notin StoreIds(st)}}]

\* collection.add with an id that is already stored ignores the new row.
\* A mismatch of the batch lengths or an id repeated in the batch raises.
CollectionAdd(st, ids, texts, metadatas) ==
    IF Len(ids) # Len(texts) \/ Len(metadatas) # Len(texts) \/ ~NoDup(ids)
    THEN [raised |-> TRUE, store |-> st]
    ELSE [raised |-> FALSE,
          store |-> st \cup {[id |-> ids[i], text |-> texts[i], meta |-> metadatas[i]] :
                              i \in {j \in 1..Len(ids) : ids[j] \notin StoreIds(st)}}]

\* collection.delete(ids=[doc_id]): removes the rows of the id, no error if absent
CollectionDelete(st, doc_id) == {r \in st : r.id # doc_id}

\* collection.get(ids=[doc_id]): parallel arrays of the rows found
CollectionGet(st, doc_id) ==
    LET rows == RowsOf(st, doc_id)
    IN  IF rows = {} THEN [documents |-> <<>>, metadatas |-> <<>>]
        ELSE LET r == CHOOSE x \in rows : TRUE
             IN  [documents |-> <<r.text>>, metadatas |-> <<r.meta>>]

\* collection.count()
CollectionCount(st) == Cardinality(st)

\* collection.query(query_texts=[q], n_results=n): the possible answers, given
\* the distance of every stored row to the query: the n nearest rows in
\* ascending distance (ties in any order); n <= 0 raises.
QueryOrders(st, dist) ==
    {s \in [1..Cardinality(st) -> st] :
        /\ \A i, j \in 1..Cardinality(st) : s[i] = s[j] => i = j
        /\ \A i, j \in 1..Cardinality(st) : i < j => dist[s[i].id] <= dist[s[j].id]}

CollectionQuery(st, n, dist, order) ==
    IF n <= 0 THEN [raised |-> TRUE, rows |-> <<>>]
    ELSE [raised |-> FALSE,
          rows |-> [i \in 1..Min(n, Len(order)) |->
                      [id |-> order[i].id, text |-> order[i].text,
                       meta |-> order[i].meta, distance |-> dist[order[i].id]]]]

Raised == [raised |-> TRUE, rows |-> <<>>]

(***************************************************************************)
(* document_embedding.py                                                   *)
(***************************************************************************)
\* ids = [f"doc_{i}" for i in range(len(texts))]
SequentialIds(n) == [i \in 1..n |-> "doc_" \o ToString(i - 1)]

DefaultMetadatas(n) == [i \in 1..n |-> default_metadata]

\* Python's None as a result
None == [none |-> TRUE]

\* returns the success flag and the store it leaves; fails: the store raises
upsert_embeddings(st, texts, metadatas, ids, fails) ==
    IF texts = <<>> THEN [ok |-> FALSE, store |-> st]
    ELSE LET ids1 == IF ids = <<>> THEN SequentialIds(Len(texts)) ELSE ids
             metadatas1 == IF metadatas = <<>> THEN DefaultMetadatas(Len(texts))
                           ELSE metadatas
             r == CollectionAdd(st, ids1, texts, metadatas1)
         IN  IF fails \/ r.raised THEN [ok |-> FALSE, store |-> st]
             ELSE [ok |-> TRUE, store |-> r.store]

\* what a caller is left with when an exception is not caught
Unhandled == [exception |-> TRUE]

\* a query without the handler of lines 87-89
query_by_text_unhandled(resp) == IF resp.raised THEN Unhandled ELSE resp

\* lines 80-89; resp: what collection.query answers, or that it raised
query_by_text(resp) == IF resp.raised THEN None ELSE resp

delete_document_keep(st, doc_id, fails) == [ok |-> ~fails, store |-> st]

delete_document(st, doc_id, fails) ==
    IF fails THEN [ok |-> FALSE, store |-> st]
    ELSE [ok |-> TRUE, store |-> CollectionDelete(st, doc_id)]

get_document_count(st, fails) == IF fails THEN 0 ELSE CollectionCount(st)

(***************************************************************************)
(* document_retrieval.py                                                   *)
(***************************************************************************)
\* a lookup without the test of line 94
retrieve_document_by_id_nocheck(st, doc_id, fails) ==
    IF fails THEN None
    ELSE [id |-> doc_id, text |-> Join(<<>>, CollectionGet(st, doc_id).documents),
          metadata |-> Join(<<>>, CollectionGet(st, doc_id).metadatas)]

retrieve_document_by_id(st, doc_id, fails) ==
    IF fails THEN None
    ELSE LET result == CollectionGet(st, doc_id)
         IN  IF result.documents = <<>> THEN None
             ELSE [id |-> doc_id,
                   text |-> result.documents[1],
                   metadata |-> IF result.metadatas # <<>> THEN result.metadatas[1]
                                ELSE << >>]

\* matches.sort(key=similarity, reverse=True): stable, equal keys keep their order
RECURSIVE InsertDesc(_, _)
InsertDesc(sorted, m) ==
    IF sorted = <<>> THEN <<m>>
    ELSE IF Head(sorted).similarity >= m.similarity
         THEN <<Head(sorted)>> \o InsertDesc(Tail(sorted), m)
         ELSE <<m>> \o sorted

RECURSIVE SortDesc(_)
SortDesc(ms) ==
    IF ms = <<>> THEN <<>>
    ELSE InsertDesc(SortDesc(SubSeq(ms, 1, Len(ms) - 1)), ms[Len(ms)])

\* one row of the store's answer as a match (lines 50-69)
MatchOf(row) ==
    [id |-> row.id,
     text |-> IF row.text = <<>> /\ "text" \in DOMAIN row.meta
              THEN row.meta.text ELSE row.text,
     metadata |-> row.meta,
     similarity |-> ScaleOne - row.distance,
     raw_distance |-> row.distance]

\* a retriever that forgets the threshold
FilterMatchesNoThreshold(rows, similarity_threshold) ==
    [i \in 1..Len(rows) |-> MatchOf(rows[i])]

\* the loop of lines 39-69: rows below the threshold are skipped
RECURSIVE FilterMatches(_, _)
FilterMatches(rows, similarity_threshold) ==
    IF rows = <<>> THEN <<>>
    ELSE IF ScaleOne - Head(rows).distance < similarity_threshold
         THEN FilterMatches(Tail(rows), similarity_threshold)
         ELSE <<MatchOf(Head(rows))>> \o FilterMatches(Tail(rows), similarity_threshold)

\* a retriever without the early return of lines 20-22
retrieve_documents_no_guard(query, top_k, similarity_threshold, resp) ==
    IF resp.raised THEN [matches |-> <<>>, error |-> TRUE, storeCalls |-> 1]
    ELSE [matches |-> SortDesc(FilterMatches(resp.rows, similarity_threshold)),
          error |-> FALSE, storeCalls |-> 1]

\* a retriever whose handler returns the plain empty result
retrieve_documents_no_marker(query, top_k, similarity_threshold, resp) ==
    IF query = <<>> THEN [matches |-> <<>>, error |-> FALSE, storeCalls |-> 0]
    ELSE IF resp.raised \/ resp.rows = <<>>
    THEN [matches |-> <<>>, error |-> FALSE, storeCalls |-> 1]
    ELSE [matches |-> SortDesc(FilterMatches(resp.rows, similarity_threshold)),
          error |-> FALSE, storeCalls |-> 1]

\* resp: what collection.query answers (or that it raised) if it is called
retrieve_documents(query, top_k, similarity_threshold, resp) ==
    IF query = <<>> THEN [matches |-> <<>>, error |-> FALSE, storeCalls |-> 0]
    ELSE IF resp.raised THEN [matches |-> <<>>, error |-> TRUE, storeCalls |-> 1]
    ELSE IF resp.rows = <<>> THEN [matches |-> <<>>, error |-> FALSE, storeCalls |-> 1]
    ELSE [matches |-> SortDesc(FilterMatches(resp.rows, similarity_threshold)),
          error |-> FALSE, storeCalls |-> 1]

(***************************************************************************)
(* The tokenizer and the scoring model of deepset/roberta-base-squad2      *)
(* (chatbot_model.py lines 24-25).  A token is a word (a run of            *)
(* non-blank characters) or a newline; the special tokens are <s>, </s>    *)
(* and <pad>.                                                              *)
(***************************************************************************)
BOS == <<"<s>">>
EOS == <<"</s>">>
PAD == <<"<pad>">>
NL  == <<"\n">>
SpecialTokens == {BOS, EOS, PAD}

\* tokenizer.encode(text, add_special_tokens=False)
RECURSIVE EncodeFrom(_, _)
EncodeFrom(s, word) ==
    LET flush == IF word = <<>> THEN <<>> ELSE <<word>>
    IN  IF s = <<>> THEN flush
        ELSE IF Head(s) = "\n" THEN flush \o <<NL>> \o EncodeFrom(Tail(s), <<>>)
        ELSE IF Head(s) = " " THEN flush \o EncodeFrom(Tail(s), <<>>)
        ELSE EncodeFrom(Tail(s), Append(word, Head(s)))

Encode(s) == EncodeFrom(s, <<>>)

\* tokenizer.decode(tokens, skip_special_tokens=skip): words are joined by one
\* blank, a newline token is a newline
RECURSIVE DecodeFrom(_, _, _)
DecodeFrom(tokens, skip, glue) ==
    IF tokens = <<>> THEN <<>>
    ELSE LET t == Head(tokens)
         IN  IF skip /\ t \in SpecialTokens THEN DecodeFrom(Tail(tokens), skip, glue)
             ELSE IF t = NL THEN t \o DecodeFrom(Tail(tokens), skip, FALSE)
             ELSE (IF glue THEN <<" ">> ELSE <<>>) \o t
                  \o DecodeFrom(Tail(tokens), skip, TRUE)

Decode(tokens, skip) == DecodeFrom(tokens, skip, FALSE)

\* 512 in the source (line 109); the model runs it scaled to WindowScaled
max_length == WindowScaled

\* the tokens the code reserves for the special tokens (line 115)
SpecialReserve == 3
\* the special tokens the tokenizer puts around a pair: <s> q </s></s> c </s>
PairSpecials == 4

\* truncation=True (longest first): tokens are dropped one at a time from
\* the end of the longer sequence, from the second one when they are equal
RECURSIVE TruncatePair(_, _, _)
TruncatePair(q, c, room) ==
    IF Len(q) + Len(c) <= room \/ (q = <<>> /\ c = <<>>) THEN <<q, c>>
    ELSE IF Len(q) > Len(c) THEN TruncatePair(SubSeq(q, 1, Len(q) - 1), c, room)
    ELSE TruncatePair(q, SubSeq(c, 1, Len(c) - 1), room)

\* self.tokenizer(question, chunk, add_special_tokens=True, max_length=max_length,
\*                truncation=True, padding="max_length").input_ids[0]
TokenizePair(question, chunk) ==
    LET t == TruncatePair(Encode(question), Encode(chunk), max_length - PairSpecials)
        ids == <<BOS>> \o t[1] \o <<EOS, EOS>> \o t[2] \o <<EOS>>
    IN  ids \o [i \in 1..(max_length - Len(ids)) |-> PAD]

\* The weights of the scoring model: the word it prefers as a start, the
\* word it prefers as an end, and whether it scores <s> high (the "no
\* answer" position of a SQuAD2 model).
ScoreModels == [s : {<<"x">>, <<"z">>}, e : {<<"y">>, <<"z">>}, cls : BOOLEAN]

TokenWeight(fav, cls, t) ==
    IF t = fav THEN 3
    ELSE IF t = BOS THEN (IF cls THEN 4 ELSE 0)
    ELSE IF t \in SpecialTokens \/ t = NL THEN 0
    ELSE 1

\* self.model(**inputs): the start and end logits of the window's positions.
\* Earlier positions score slightly higher, so no two logits of a vector tie.
Forward(m, ids) ==
    [start_logits |-> [i \in 1..Len(ids) |->
                         TokenWeight(m.s, m.cls, ids[i]) * (Len(ids) + 1) + (Len(ids) - i)],
     end_logits   |-> [i \in 1..Len(ids) |->
                         TokenWeight(m.e, m.cls, ids[i]) * (Len(ids) + 1) + (Len(ids) - i)]]

\* torch.topk(logits, k).indices.tolist(): the k positions of the highest
\* logits, highest first
RECURSIVE TopKFrom(_, _, _)
TopKFrom(logits, k, taken) ==
    IF k = 0 \/ taken = DOMAIN logits THEN <<>>
    ELSE LET best == CHOOSE i \in DOMAIN logits \ taken :
                        \A j \in DOMAIN logits \ taken :
                            logits[i] > logits[j] \/ (logits[i] = logits[j] /\ i <= j)
         IN  <<best>> \o TopKFrom(logits, k - 1, taken \cup {best})

TopK(logits, k) == TopKFrom(logits, k, {})

(***************************************************************************)
(* chatbot_model.py: EnhancedQAModel.answer_question                       *)
(***************************************************************************)
NoContextMsg == <<"No context provided to answer the question.">>
NoAnswerMsg ==
    <<"I couldn't find an answer to your question in the provided documents.">>
QuestionErrorMsg == <<"Error processing your question: scoring failed">>

\* float('-inf') (line 154): below every score the model produces
NegInf == -1000
\* len(context.strip()) < 5 (line 100)
MinContextChars == 5
\* max_answer_length=100 (line 86) is passed through by process_query
DefaultMaxAnswerLength == 100

\* line 115
MaxContextTokens(question) == max_length - Len(Encode(question)) - SpecialReserve

\* a packing that starts the next chunk empty when it flushes one
RECURSIVE PackParagraphsDrop(_, _, _, _, _)
PackParagraphsDrop(paragraphs, budget, chunks, current_chunk, current_length) ==
    IF paragraphs = <<>>
    THEN (IF current_chunk # <<>> THEN Append(chunks, current_chunk) ELSE chunks)
    ELSE LET paragraph == Head(paragraphs)
             n == Len(Encode(paragraph))
         IN  IF Strip(paragraph) = <<>>
             THEN PackParagraphsDrop(Tail(paragraphs), budget, chunks,
                                     current_chunk, current_length)
             ELSE IF current_length + n > budget /\ current_chunk # <<>>
             THEN PackParagraphsDrop(Tail(paragraphs), budget,
                                     Append(chunks, current_chunk), <<>>, 0)
             ELSE PackParagraphsDrop(Tail(paragraphs), budget, chunks,
                                     IF current_chunk # <<>>
                                     THEN current_chunk \o <<"\n">> \o paragraph
                                     ELSE paragraph,
                                     current_length + n)

\* lines 118-140: the paragraphs of the context packed into chunks
RECURSIVE PackParagraphs(_, _, _, _, _)
PackParagraphs(paragraphs, budget, chunks, current_chunk, current_length) ==
    IF paragraphs = <<>>
    THEN (IF current_chunk # <<>> THEN Append(chunks, current_chunk) ELSE chunks)
    ELSE LET paragraph == Head(paragraphs)
             n == Len(Encode(paragraph))
         IN  IF Strip(paragraph) = <<>>
             THEN PackParagraphs(Tail(paragraphs), budget, chunks,
                                 current_chunk, current_length)
             ELSE IF current_length + n > budget /\ current_chunk # <<>>
             THEN PackParagraphs(Tail(paragraphs), budget,
                                 Append(chunks, current_chunk), paragraph, n)
             ELSE PackParagraphs(Tail(paragraphs), budget, chunks,
                                 IF current_chunk # <<>>
                                 THEN current_chunk \o <<"\n">> \o paragraph
                                 ELSE paragraph,
                                 current_length + n)

\* lines 143-148: the hard split by tokens (budget > 0)
RECURSIVE SplitTokens(_, _)
SplitTokens(tokens, budget) ==
    IF tokens = <<>> THEN <<>>
    ELSE <<Decode(SubSeq(tokens, 1, Min(budget, Len(tokens))), FALSE)>>
         \o SplitTokens(SubSeq(tokens, Min(budget, Len(tokens)) + 1, Len(tokens)), budget)

\* lines 108-148
ContextChunks(question, context) ==
    LET budget == MaxContextTokens(question)
        packed == PackParagraphs(SplitLines(context), budget, <<>>, <<>>, 0)
    IN  IF packed # <<>> THEN packed ELSE SplitTokens(Encode(context), budget)

\* top_k = 10 (line 179), scaled to CandidatesScaled
top_k == CandidatesScaled

\* a filter that skips reversed spans only
InvalidSpanNoLength(start_idx, end_idx, max_answer_length) ==
    end_idx < start_idx

\* line 187: the spans the loop skips as invalid
InvalidSpan(start_idx, end_idx, max_answer_length) ==
    end_idx < start_idx \/ end_idx - start_idx + 1 > max_answer_length

\* lines 184-191: the pairs of the nested loops that reach the scoring of
\* line 190
ScoredSpans(starts, ends, max_answer_length) ==
    {p \in Range(starts) \X Range(ends) : ~InvalidSpan(p[1], p[2], max_answer_length)}

\* lines 194-195
AnswerText(ids, start_idx, end_idx) == Decode(SubSeq(ids, start_idx, end_idx), TRUE)

\* lines 184-204, pair n of the nested loops over start_indexes and end_indexes
RECURSIVE ScanPairsNewest(_, _, _, _, _, _, _)
ScanPairsNewest(best, ids, out, starts, ends, max_answer_length, n) ==
    IF n > Len(starts) * Len(ends) THEN best
    ELSE LET start_idx == starts[((n - 1) \div Len(ends)) + 1]
             end_idx == ends[((n - 1) % Len(ends)) + 1]
             confidence == out.start_logits[start_idx] + out.end_logits[end_idx]
             answer_text == AnswerText(ids, start_idx, end_idx)
             next == IF InvalidSpan(start_idx, end_idx, max_answer_length) THEN best
                     ELSE IF Strip(answer_text) = <<>> THEN best
                     ELSE [answer |-> answer_text, confidence |-> confidence]
         IN  ScanPairsNewest(next, ids, out, starts, ends, max_answer_length, n + 1)

RECURSIVE ScanPairs(_, _, _, _, _, _, _)
ScanPairs(best, ids, out, starts, ends, max_answer_length, n) ==
    IF n > Len(starts) * Len(ends) THEN best
    ELSE LET start_idx == starts[((n - 1) \div Len(ends)) + 1]
             end_idx == ends[((n - 1) % Len(ends)) + 1]
             confidence == out.start_logits[start_idx] + out.end_logits[end_idx]
             answer_text == AnswerText(ids, start_idx, end_idx)
             next == IF InvalidSpan(start_idx, end_idx, max_answer_length) THEN best
                     ELSE IF Strip(answer_text) = <<>> THEN best
                     ELSE IF confidence > best.confidence
                     THEN [answer |-> answer_text, confidence |-> confidence]
                     ELSE best
         IN  ScanPairs(next, ids, out, starts, ends, max_answer_length, n + 1)

\* lines 178-204: the candidates of one chunk
ScanLogits(best, ids, out, max_answer_length) ==
    ScanPairs(best, ids, out, TopK(out.start_logits, top_k),
              TopK(out.end_logits, top_k), max_answer_length, 1)

\* lines 170-176
ScanIds(best, m, ids, max_answer_length) ==
    ScanLogits(best, ids, Forward(m, ids), max_answer_length)

\* lines 159-204: one chunk of the loop
ScanChunk(best, m, question, chunk, max_answer_length) ==
    ScanIds(best, m, TokenizePair(question, chunk), max_answer_length)

\* lines 153-204: the loop over the chunks
RECURSIVE ScanChunks(_, _, _, _, _)
ScanChunks(best, m, question, chunks, max_answer_length) ==
    IF chunks = <<>> THEN best
    ELSE ScanChunks(ScanChunk(best, m, question, Head(chunks), max_answer_length),
                    m, question, Tail(chunks), max_answer_length)

TooShort4(context) == context = <<>> \/ Len(Strip(context)) < 4

\* line 100
TooShort(context) == context = <<>> \/ Len(Strip(context)) < MinContextChars

\* an extractor that returns the running best as it stands, sentinel included
AnswerResultSentinel(best, nChunks, failAt) ==
    IF failAt \in 1..nChunks
    THEN [out |-> [answer |-> QuestionErrorMsg, confidence |-> 0, has_answer |-> FALSE],
          modelCalls |-> failAt]
    ELSE [out |-> [answer |-> IF best.answer # <<>> THEN best.answer ELSE NoAnswerMsg,
                   confidence |-> best.confidence,
                   has_answer |-> best.answer # <<>>],
          modelCalls |-> nChunks]

\* an extractor that handles a scoring error chunk by chunk and goes on
AnswerResultPerChunk(best, nChunks, failAt) ==
    IF best.answer # <<>>
    THEN [out |-> [answer |-> best.answer, confidence |-> best.confidence,
                   has_answer |-> TRUE],
          modelCalls |-> nChunks]
    ELSE [out |-> [answer |-> NoAnswerMsg, confidence |-> 0, has_answer |-> FALSE],
          modelCalls |-> nChunks]

\* lines 206-228: the dict returned once the chunks are scanned, or the
\* error dict when scoring raised at chunk failAt
AnswerResult(best, nChunks, failAt) ==
    IF failAt \in 1..nChunks
    THEN [out |-> [answer |-> QuestionErrorMsg, confidence |-> 0, has_answer |-> FALSE],
          modelCalls |-> failAt]
    ELSE IF best.answer # <<>>
    THEN [out |-> [answer |-> best.answer, confidence |-> best.confidence,
                   has_answer |-> TRUE],
          modelCalls |-> nChunks]
    ELSE [out |-> [answer |-> NoAnswerMsg, confidence |-> 0, has_answer |-> FALSE],
          modelCalls |-> nChunks]

\* lines 152-228 for the chunks built
AnswerFromChunks(m, question, context_chunks, max_answer_length, failAt) ==
    AnswerResult(ScanChunks([answer |-> <<>>, confidence |-> NegInf], m, question,
                            context_chunks, max_answer_length),
                 Len(context_chunks), failAt)

\* m: the model's weights; failAt: the chunk at which scoring raises (0: never).
\* out is the dict returned, modelCalls the number of forward passes made.
answer_question(m, question, context, max_answer_length, failAt) ==
    IF TooShort(context)
    THEN [out |-> [answer |-> NoContextMsg, confidence |-> 0, has_answer |-> FALSE],
          modelCalls |-> 0]
    ELSE AnswerFromChunks(m, question, ContextChunks(question, context),
                          max_answer_length, failAt)

(***************************************************************************)
(* chatbot_model.py: EnhancedQAModel.retrieve_documents and process_query  *)
(***************************************************************************)
NoDocumentsMsg == <<"No relevant documents found to answer your question.">>

\* top_k=5 (chatbot_model.py line 49)
QATopK == 5
\* top_k=5 (document_retrieval.py line 8)
DefaultTopK == 5
\* similarity_threshold=0.7 (document_retrieval.py line 8), in tenths
DefaultThreshold == 7

\* lines 60-84; resp: what self.collection.query answers, or that it raised
QA_retrieve_documents(resp) ==
    IF resp.raised THEN <<>>
    ELSE [i \in 1..Len(resp.rows) |->
            [kind |-> "dict", text |-> resp.rows[i].text, metadata |-> resp.rows[i].meta,
             distance |-> resp.rows[i].distance, id |-> resp.rows[i].id]]

\* lines 260-270: a dict with a 'text' key, a str, or anything else as str(doc)
DocText(doc) ==
    IF doc.kind = "dict" THEN doc.text
    ELSE IF doc.kind = "str" THEN doc.value
    ELSE doc.repr

\* lines 258-278: the context is built and answer_question answers
AnswerFromContext(m, query, documents, combined_text, failAt) ==
    [documents |-> documents, context |-> combined_text, aqCalls |-> 1,
     aq |-> answer_question(m, query, combined_text, DefaultMaxAnswerLength, failAt)]

\* an orchestrator without the early return of lines 250-256
AnswerFromDocumentsAlways(m, query, documents, failAt) ==
    AnswerFromContext(m, query, documents,
                      Join(<<"\n", "\n">>,
                           [i \in 1..Len(documents) |-> DocText(documents[i])]),
                      failAt)

\* lines 249-278
AnswerFromDocuments(m, query, documents, failAt) ==
    IF documents = <<>>
    THEN [documents |-> documents, context |-> <<>>, aqCalls |-> 0,
          aq |-> [out |-> [answer |-> NoDocumentsMsg, confidence |-> 0,
                           has_answer |-> FALSE],
                  modelCalls |-> 0]]
    ELSE AnswerFromContext(m, query, documents,
                           Join(<<"\n", "\n">>,
                                [i \in 1..Len(documents) |-> DocText(documents[i])]),
                           failAt)

\* lines 242-278.  Returns the dict (aq.out) with what the call did: the
\* documents it used, the context it built, its calls of answer_question
\* (aqCalls) and of the scoring model (aq.modelCalls).
process_query(m, query, use_retrieved_docs, provided_docs, resp, failAt) ==
    AnswerFromDocuments(m, query,
                        IF use_retrieved_docs THEN QA_retrieve_documents(resp)
                        ELSE provided_docs,
                        failAt)

(***************************************************************************)
(* app.py: the /api/query endpoint                                         *)
(***************************************************************************)
\* lines 334-338: the sources of result['source_documents']
RECURSIVE SourcesOf(_)
SourcesOf(docs) ==
    IF docs = <<>> THEN <<>>
    ELSE (IF "metadata" \in DOMAIN Head(docs) /\ "source" \in DOMAIN Head(docs).metadata
          THEN <<Head(docs).metadata.source>> ELSE <<>>) \o SourcesOf(Tail(docs))

\* lines 335-336: the loop runs only if the result has 'source_documents'
SourceDocuments(result) ==
    IF "source_documents" \in DOMAIN result THEN result.source_documents ELSE <<>>

\* lines 330-349: the response built from what process_query returned
QueryResponse(pq) ==
    [status |-> 200,
     body |-> [response |-> pq.aq.out.answer, confidence |-> pq.aq.out.confidence,
               has_answer |-> pq.aq.out.has_answer,
               sources |-> SourcesOf(SourceDocuments(pq.aq.out))],
     pq |-> pq]

\* lines 306-363.  hasQuery: the body carries 'query'; initFails: constructing
\* the EnhancedQAModel raises.  pq: what process_query did (None on an early exit).
query_document(m, hasQuery, query, initFails, resp, failAt) ==
    IF ~hasQuery
    THEN [status |-> 400, body |-> [error |-> <<"No query provided">>], pq |-> None]
    ELSE IF initFails
    THEN [status |-> 200,
          body |-> [response |-> <<"Error processing your query: init failed">>,
                    error |-> <<"init failed">>],
          pq |-> None]
    ELSE QueryResponse(process_query(m, query, TRUE, <<>>, resp, failAt))

(***************************************************************************)
(* app.py: the /api/chat endpoint                                          *)
(***************************************************************************)
NoInputMsg == <<"No input provided">>
NotEnoughInfoMsg ==
    <<"I don't have enough information to answer that question based on the uploaded documents.">>
\* line 435 for the NameError line 427 raises: app.py neither defines nor
\* imports the name Chatbot
ChatErrorMsg == <<"Error generating response: name 'Chatbot' is not defined">>

\* top_k=3 (line 419)
ChatTopK == 3

\* lines 427-435 as written: Chatbot() raises NameError, caught at line 433
ChatGenerate(input, resp) ==
    [status |-> 500, body |-> [error |-> ChatErrorMsg]]

\* lines 410-436.  hasInput: the body carries 'input'; resp: what the
\* store answers to the retrieval
chat(hasInput, input, resp) ==
    IF ~hasInput
    THEN [status |-> 400, body |-> [error |-> NoInputMsg]]
    ELSE IF retrieve_documents(input, ChatTopK, DefaultThreshold, resp).matches = <<>>
    THEN [status |-> 200, body |-> [response |-> NotEnoughInfoMsg]]
    ELSE ChatGenerate(input, resp)

(***************************************************************************)
(* Inputs of the operations.                                               *)
(***************************************************************************)
TextLists == {<<>>} \cup {<<t>> : t \in Texts} \cup {<<T_short, T_two>>}
MetaLists == {<<>>} \cup {<<m>> : m \in Metas} \cup {<<M_a, M_text>>}
IdLists == {<<>>} \cup {<<i>> : i \in Ids} \cup {<<"doc_0", "doc_1">>, <<"doc_0", "doc_0">>}

Thresholds == {DefaultThreshold, 9}

Q_empty == <<>>
Q_one == <<"q">>
Q_two == <<"q", " ", "z">>
Questions == {Q_one, Q_two}
Queries == {Q_empty, Q_one}

C_four == <<"x", " ", "y", "z">>
C_pad == <<" ", " ", "x", " ", " ">>
C_five == <<"x", " ", "y", " ", "z">>
C_long == <<"x", " ", "y", " ", "z", " ", "x", " ", "y", " ", "z">>
C_paras == <<"x", " ", "x", " ", "x", "\n", "y", " ", "z", "\n", "\n",
             "z", " ", "y", " ", "x">>
C_lines == <<"x", "\n", "y", "\n", "\n", "z", " ", "y", " ", "x", " ", "z">>
Contexts == {T_empty, T_short, C_four, C_pad, C_five, T_two, C_long, C_paras, C_lines}

MaxAnswerLengths == {2, DefaultMaxAnswerLength}

\* the chunk at which the scoring model may raise (0: it does not)
MaxFailAt == 2

ProvidedLists ==
    {<<>>,
     <<[kind |-> "dict", text |-> T_short]>>,
     <<[kind |-> "str", value |-> T_two], [kind |-> "dict", text |-> C_paras]>>,
     <<[kind |-> "other", repr |-> C_four]>>}

DistMaps(st) == [StoreIds(st) -> Distances]

\* what collection.query may answer for n_results = n: it raises, or it
\* answers for some distances of the stored rows to the query
QueryResponses(st, n) ==
    {Raised} \cup UNION {{CollectionQuery(st, n, dist, order) :
                              order \in QueryOrders(st, dist)} : dist \in DistMaps(st)}

NotCalled == [raised |-> FALSE, rows |-> <<>>]

\* the requests of /api/query: a body without 'query', or a query
QueryRequests ==
    {[hasQuery |-> FALSE, query |-> <<>>]}
    \cup {[hasQuery |-> TRUE, query |-> q] : q \in Questions}

\* what a request that reaches the model meets: the construction of the
\* EnhancedQAModel raises, or the model, the store's answer and the chunk at
\* which scoring raises
Unused == [initFails |-> FALSE, m |-> [s |-> <<"x">>, e |-> <<"y">>, cls |-> FALSE],
           resp |-> NotCalled, failAt |-> 0]
QueryEnvs(st) ==
    {[Unused EXCEPT !.initFails = TRUE]}
    \cup [initFails : {FALSE}, m : ScoreModels, resp : QueryResponses(st, QATopK),
          failAt : 0..MaxFailAt]

\* the calls of process_query: with retrieval (provided_docs=None), or with
\* the caller's documents and no store call
ProcessQueryCalls(st) ==
    {[use_retrieved_docs |-> TRUE, provided_docs |-> <<>>, resp |-> r] :
        r \in QueryResponses(st, QATopK)}
    \cup {[use_retrieved_docs |-> FALSE, provided_docs |-> p, resp |-> NotCalled] :
            p \in ProvidedLists}

(***************************************************************************)
(* The state machine.  last records the operation that has just returned:  *)
(* its arguments, what the collaborators answered, and its result.         *)
(***************************************************************************)
Idle == [op |-> "idle"]

\* app.py once imported: document_embedding has opened its collection (lines
\* 10-31), no EnhancedQAModel has been built, no request is in progress
ProcessStarted == [models |-> 0, collections |-> 1]
IngestIdle == [pc |-> "idle"]
Threads == {1, 2}
ThreadIdle == [pc |-> "idle"]
\* ./docs before any form was filled: neither localfile.docx nor Output2.docx
NoFile == [exists |-> FALSE, doc |-> <<>>]
NoDocs == [localfile |-> NoFile, output |-> NoFile]

Init ==
    /\ store = {}
    /\ last = Idle
    /\ process = ProcessStarted
    /\ clock = 0
    /\ ingest = IngestIdle
    /\ handlers = [h \in Threads |-> ThreadIdle]
    /\ docsdir = NoDocs

Upsert ==
    /\ last = Idle
    /\ UNCHANGED server
    /\ \E texts \in TextLists, metadatas \in MetaLists, ids \in IdLists, fails \in BOOLEAN :
        LET r == upsert_embeddings(store, texts, metadatas, ids, fails)
        IN  /\ store' = r.store
            /\ last' = [op |-> "upsert", texts |-> texts, metadatas |-> metadatas,
                        ids |-> ids, fails |-> fails, ok |-> r.ok, pre |-> store]

Delete ==
    /\ last = Idle
    /\ UNCHANGED server
    /\ \E doc_id \in Ids, fails \in BOOLEAN :
        LET r == delete_document(store, doc_id, fails)
        IN  /\ store' = r.store
            /\ last' = [op |-> "delete", doc_id |-> doc_id, fails |-> fails,
                        ok |-> r.ok, pre |-> store]

Get ==
    /\ last = Idle
    /\ UNCHANGED server
    /\ \E doc_id \in Ids, fails \in BOOLEAN :
        /\ last' = [op |-> "get", doc_id |-> doc_id, fails |-> fails,
                    out |-> retrieve_document_by_id(store, doc_id, fails)]
        /\ UNCHANGED store

Count ==
    /\ last = Idle
    /\ UNCHANGED server
    /\ \E fails \in BOOLEAN :
        /\ last' = [op |-> "count", fails |-> fails,
                    out |-> get_document_count(store, fails)]
        /\ UNCHANGED store

QueryByText ==
    /\ last = Idle
    /\ UNCHANGED server
    /\ \E query_text \in Queries, k \in 0..MaxTopK :
        \E resp \in QueryResponses(store, k) :
            /\ last' = [op |-> "query_by_text", query_text |-> query_text, top_k |-> k,
                        resp |-> resp, out |-> query_by_text(resp)]
            /\ UNCHANGED store

Retrieve ==
    /\ last = Idle
    /\ UNCHANGED server
    /\ \E query \in Queries, k \in 0..MaxTopK, similarity_threshold \in Thresholds :
        \E resp \in QueryResponses(store, k) :
            /\ last' = [op |-> "retrieve", query |-> query, top_k |-> k,
                        similarity_threshold |-> similarity_threshold, resp |-> resp,
                        out |-> retrieve_documents(query, k, similarity_threshold, resp)]
            /\ UNCHANGED store

AnswerQuestion ==
    /\ last = Idle
    /\ UNCHANGED server
    /\ \E m \in ScoreModels, question \in Questions, context \in Contexts,
          max_answer_length \in MaxAnswerLengths, failAt \in 0..MaxFailAt :
        /\ last' = [op |-> "answer_question", m |-> m, question |-> question,
                    context |-> context, max_answer_length |-> max_answer_length,
                    failAt |-> failAt,
                    aq |-> answer_question(m, question, context, max_answer_length,
                                           failAt)]
        /\ UNCHANGED store

ProcessQuery ==
    /\ last = Idle
    /\ UNCHANGED server
    /\ \E m \in ScoreModels, query \in Questions, call \in ProcessQueryCalls(store),
          failAt \in 0..MaxFailAt :
        /\ last' = [op |-> "process_query", m |-> m, query |-> query,
                    use_retrieved_docs |-> call.use_retrieved_docs,
                    provided_docs |-> call.provided_docs, resp |-> call.resp,
                    failAt |-> failAt,
                    pq |-> process_query(m, query, call.use_retrieved_docs,
                                         call.provided_docs, call.resp, failAt)]
        /\ UNCHANGED store

QueryDocument ==
    /\ last = Idle
    /\ UNCHANGED server
    /\ \E req \in QueryRequests :
        \E env \in IF req.hasQuery THEN QueryEnvs(store) ELSE {Unused} :
            /\ last' = [op |-> "query_document", req |-> req, env |-> env,
                        http |-> query_document(env.m, req.hasQuery, req.query,
                                                env.initFails, env.resp, env.failAt)]
            /\ UNCHANGED store

\* the requests of /api/chat: a body without 'input', or an input
ChatRequests ==
    {[hasInput |-> FALSE, input |-> <<>>]}
    \cup {[hasInput |-> TRUE, input |-> q] : q \in Queries}

Chat ==
    /\ last = Idle
    /\ UNCHANGED server
    /\ \E req \in ChatRequests :
        \E resp \in IF req.hasInput THEN QueryResponses(store, ChatTopK) ELSE {NotCalled} :
            /\ last' = [op |-> "chat", req |-> req, resp |-> resp,
                        http |-> chat(req.hasInput, req.input, resp)]
            /\ UNCHANGED store

\* the caller takes the result; the next operation starts
Return ==
    /\ last # Idle
    /\ last' = Idle
    /\ UNCHANGED store
    /\ UNCHANGED server

Next ==
    \/ Upsert
    \/ Delete
    \/ Get
    \/ Count
    \/ QueryByText
    \/ Retrieve
    \/ AnswerQuestion
    \/ ProcessQuery
    \/ QueryDocument
    \/ Chat
    \/ Return

Spec == Init /\ [][Next]_vars

(***************************************************************************)
(* The /api/query endpoint over a sequence of requests: what each request  *)
(* builds (app.py lines 318-325, chatbot_model.py lines 22-47).            *)
(***************************************************************************)
\* the query requests one behaviour serves
MaxRequests == 2

\* EnhancedQAModel.__init__: from_pretrained loads the tokenizer and the
\* scoring model, PersistentClient and get_collection open the chunk store
EnhancedQAModelInit(p) ==
    [models |-> p.models + 1, collections |-> p.collections + 1]

\* lines 306-363 with what the request built; a request without 'query'
\* returns at line 309, and a constructor that raises leaves no instance
ServeQuery ==
    /\ last = Idle
    /\ process.models < MaxRequests
    /\ \E req \in QueryRequests :
        \E env \in IF req.hasQuery THEN QueryEnvs(store) ELSE {Unused} :
            /\ process' = IF req.hasQuery /\ ~env.initFails
                           THEN EnhancedQAModelInit(process) ELSE process
            /\ last' = [op |-> "query_document", req |-> req, env |-> env,
                        built |-> req.hasQuery /\ ~env.initFails,
                        model |-> process'.models,
                        collection |-> process'.collections,
                        http |-> query_document(env.m, req.hasQuery, req.query,
                                                env.initFails, env.resp, env.failAt)]
    /\ UNCHANGED <<store, clock, ingest, handlers, docsdir>>

NextServe ==
    \/ Upsert
    \/ ServeQuery
    \/ Return

SpecServe == Init /\ [][NextServe]_vars

(***************************************************************************)
(* app.py: the /api/embed-documents endpoint (lines 604-637).  A request   *)
(* runs one attempt of one batch per step; the clock may tick between      *)
(* steps.                                                                  *)
(***************************************************************************)
\* the documents of the largest request
MaxDocuments == 5
\* the seconds the clock advances in one behaviour
MaxClock == 1

\* line 614
max_retries == 3
\* line 615
batch_size == 2

D_a == [document |-> T_short, metadata |-> M_a]
D_b == [document |-> T_two, metadata |-> M_text]
\* an element without the 'document' key
D_bad == [metadata |-> M_a]
Docs == {D_a, D_bad}

DocumentLists ==
    UNION {[1..n -> Docs] : n \in 0..MaxDocuments}
    \cup {<<D_a, D_b>>, <<D_b, D_bad, D_a>>}

\* the bodies of the requests: no 'documents' key, a 'documents' value that
\* is not a list (a number), or a list of documents
EmbedRequests ==
    {[kind |-> "missing", documents |-> <<>>], [kind |-> "number", documents |-> <<>>]}
    \cup {[kind |-> "list", documents |-> ds] : ds \in DocumentLists}

\* line 618: documents[i:i + batch_size], i counted from 0
BatchOf(documents, i) == SubSeq(documents, i + 1, Min(i + batch_size, Len(documents)))

\* line 625: f"id{int(time.time())}_{j}" for j in range(i, i + len(batch))
BatchIds(t, i, n) == [j \in 1..n |-> "id" \o ToString(t) \o "_" \o ToString(i + j - 1)]

\* lines 623-624 raise KeyError for an element without the key
WellFormed(batch) ==
    \A k \in 1..Len(batch) : {"document", "metadata"} \subseteq DOMAIN batch[k]

\* lines 622-626: collection.add of one batch at clock t
BatchAdd(st, batch, t, i) ==
    IF ~WellFormed(batch) THEN [raised |-> TRUE, store |-> st]
    ELSE CollectionAdd(st, BatchIds(t, i, Len(batch)),
                       [k \in 1..Len(batch) |-> batch[k].document],
                       [k \in 1..Len(batch) |-> batch[k].metadata])

\* line 634
EmbedDone(documents, log) ==
    [pc |-> "done", documents |-> documents, log |-> log, status |-> 200,
     body |-> [message |-> <<"Documents embedded successfully!">>]]

\* a run that stops at the first batch whose attempts all failed
NextBatchAbort(documents, i, log) ==
    IF i + batch_size >= Len(documents) \/ ~log[Len(log)].ok
    THEN EmbedDone(documents, log)
    ELSE [pc |-> "attempt", documents |-> documents, i |-> i + batch_size,
          attempt |-> 0, log |-> log]

\* line 617: the next value of i, or the end of the loop
NextBatch(documents, i, log) ==
    IF i + batch_size >= Len(documents) THEN EmbedDone(documents, log)
    ELSE [pc |-> "attempt", documents |-> documents, i |-> i + batch_size,
          attempt |-> 0, log |-> log]

\* a retry loop without the break of line 628
AfterAttemptNoBreak(ing, ok, log) ==
    IF ing.attempt = max_retries - 1 THEN NextBatch(ing.documents, ing.i, log)
    ELSE [ing EXCEPT !.attempt = @ + 1, !.log = log]

\* lines 620-632: after an attempt the loop breaks, retries or gives up
AfterAttempt(ing, ok, log) ==
    IF ok \/ ing.attempt = max_retries - 1 THEN NextBatch(ing.documents, ing.i, log)
    ELSE [ing EXCEPT !.attempt = @ + 1, !.log = log]

\* lines 606-617: the request is read and the loop entered
EmbedStart(req) ==
    IF req.kind = "missing"
    THEN [pc |-> "done", documents |-> <<>>, log |-> <<>>, status |-> 400,
          body |-> [error |-> <<"No documents provided">>]]
    ELSE IF req.kind = "number"
    THEN [pc |-> "done", documents |-> <<>>, log |-> <<>>, status |-> 500,
          body |-> [error |-> <<"Error embedding documents: no len()">>]]
    ELSE IF req.documents = <<>> THEN EmbedDone(<<>>, <<>>)
    ELSE [pc |-> "attempt", documents |-> req.documents, i |-> 0, attempt |-> 0,
          log |-> <<>>]

EmbedRequest ==
    /\ ingest.pc = "idle"
    /\ \E req \in EmbedRequests : ingest' = EmbedStart(req)
    /\ UNCHANGED <<store, last, process, clock, handlers, docsdir>>

\* one pass of the retry loop; fails: the store raises
EmbedAttempt ==
    /\ ingest.pc = "attempt"
    /\ \E fails \in BOOLEAN :
        LET r == BatchAdd(store, BatchOf(ingest.documents, ingest.i), clock, ingest.i)
            ok == ~fails /\ ~r.raised
        IN  /\ store' = IF ok THEN r.store ELSE store
            /\ ingest' = AfterAttempt(ingest, ok,
                                      Append(ingest.log,
                                             [batch |-> ingest.i,
                                              attempt |-> ingest.attempt,
                                              t |-> clock, ok |-> ok]))
    /\ UNCHANGED <<last, process, clock, handlers, docsdir>>

\* time.time() moves to the next second
Tick ==
    /\ clock < MaxClock
    /\ clock' = clock + 1
    /\ UNCHANGED <<store, last, process, ingest, handlers, docsdir>>

NextIngest ==
    \/ EmbedRequest
    \/ EmbedAttempt
    \/ Tick

SpecIngest == Init /\ [][NextIngest]_vars

\* the request thread keeps running: a pending attempt is eventually made
SpecIngestFair == Init /\ [][NextIngest]_vars /\ WF_vars(EmbedAttempt)

(***************************************************************************)
(* Requests in progress at the same time: the threads of app.run call      *)
(* upsert_embeddings (as upload_document does, app.py lines 142-146) and   *)
(* query_by_text on the one collection.  Each call of the collection is    *)
(* one step; a thread between its call and its return is in progress.      *)
(***************************************************************************)
ThreadTexts == {T_short, T_two}

\* the threads in progress, h apart
InProgress(hs, h) == {g \in Threads \ {h} : hs[g].pc \in {"upsert", "query"}}

\* thread h enters a call: it and the threads in progress overlap
Enter(hs, h, call) ==
    [g \in Threads |->
        IF g = h THEN call
        ELSE IF g \in InProgress(hs, h) THEN [hs[g] EXCEPT !.with = @ \cup {h}]
        ELSE hs[g]]

\* document_embedding.py lines 33-54: upsert_embeddings is entered with one chunk
ThreadUpsertCall(h) ==
    /\ handlers[h].pc = "idle"
    /\ \E id \in Ids, text \in ThreadTexts, meta \in Metas :
        handlers' = Enter(handlers, h,
                          [pc |-> "upsert", id |-> id, text |-> text, meta |-> meta,
                           with |-> InProgress(handlers, h)])
    /\ UNCHANGED <<store, last, process, clock, ingest, docsdir>>

\* lines 56-67: collection.add and the return; fails: the store raises
ThreadAdd(h) ==
    /\ handlers[h].pc = "upsert"
    /\ \E fails \in BOOLEAN :
        LET r == upsert_embeddings(store, <<handlers[h].text>>, <<handlers[h].meta>>,
                                   <<handlers[h].id>>, fails)
        IN  /\ store' = r.store
            /\ handlers' = [handlers EXCEPT ![h] =
                                [pc |-> "returned", op |-> "upsert", id |-> @.id,
                                 text |-> @.text, meta |-> @.meta, with |-> @.with,
                                 ok |-> r.ok, pre |-> store, post |-> r.store]]
    /\ UNCHANGED <<last, process, clock, ingest, docsdir>>

\* lines 69-80: query_by_text is entered
ThreadQueryCall(h) ==
    /\ handlers[h].pc = "idle"
    /\ handlers' = Enter(handlers, h, [pc |-> "query", with |-> InProgress(handlers, h)])
    /\ UNCHANGED <<store, last, process, clock, ingest, docsdir>>

\* lines 81-89: collection.query with the default top_k and the return
ThreadQuery(h) ==
    /\ handlers[h].pc = "query"
    /\ \E resp \in QueryResponses(store, DefaultTopK) :
        handlers' = [handlers EXCEPT ![h] =
                        [pc |-> "returned", op |-> "query", with |-> @.with,
                         resp |-> resp, out |-> query_by_text(resp), seen |-> store]]
    /\ UNCHANGED <<store, last, process, clock, ingest, docsdir>>

\* the caller has the result; the thread takes the next request
ThreadReturn(h) ==
    /\ handlers[h].pc = "returned"
    /\ handlers' = [handlers EXCEPT ![h] = ThreadIdle]
    /\ UNCHANGED <<store, last, process, clock, ingest, docsdir>>

NextThreads ==
    \/ \E h \in Threads : ThreadUpsertCall(h)
    \/ \E h \in Threads : ThreadAdd(h)
    \/ \E h \in Threads : ThreadQueryCall(h)
    \/ \E h \in Threads : ThreadQuery(h)
    \/ \E h \in Threads : ThreadReturn(h)

SpecThreads == Init /\ [][NextThreads]_vars

(***************************************************************************)
(* app.py: the /api/upload endpoint, served by the threads of app.run.  A   *)
(* file is its name, as stem and extension, and the text in it.  The       *)
(* handler is two steps: up to the reading of the clock for the id (lines  *)
(* 111-134), then the call of the store and the response (lines 137-158).  *)
(***************************************************************************)
\* word_count < 10 (line 243)
MinWords == 10

\* the texts of the files: blank, of two words, of ten words, of two paragraphs
UploadTexts ==
    {<<" ", "\n">>,
     T_short,
     <<"x", " ", "y", " ", "z", " ", "x", " ", "y", " ", "z", " ", "x", " ", "y",
       " ", "z", " ", "x">>,
     <<"x", " ", "y", " ", "z", " ", "x", " ", "y", "\n", "\n", "z", " ", "x",
       " ", "y", " ", "z", " ", "x", " ", "y">>}

F_txt == <<"a", ".txt">>
F_exe == <<"c", ".exe">>
NoFilename == <<>>

\* len(text.split())
WordCount(text) == Len(SelectSeq(Encode(text), LAMBDA t : t # NL))

\* lines 166-260 for the extensions of the model: the pair (text, error), of
\* which one is None; saveFails: file.save or the reading of the saved file
\* raises
process_uploaded_file(filename, text, saveFails) ==
    IF saveFails
    THEN [failed |-> TRUE, error |-> <<"Error processing file: cannot save">>]
    ELSE IF filename[2] # ".txt"
    THEN [failed |-> TRUE,
          error |-> <<"Unsupported file type. Please upload PDF, DOCX, or TXT files.">>]
    ELSE IF Strip(text) = <<>>
    THEN [failed |-> TRUE,
          error |-> <<"Could not extract text from the file using text.">>]
    ELSE IF WordCount(text) < MinWords
    THEN [failed |-> TRUE,
          error |-> <<"Extracted text has too few words. The document may be scanned or corrupted.">>]
    ELSE [failed |-> FALSE, text |-> text]

\* line 124: f"doc_{int(time.time())}" at second t
UniqueId(t) == "doc_" \o ToString(t)

\* lines 127-134
UploadMetadata(filename, text, t) ==
    [source |-> filename, text_length |-> Len(text), word_count |-> WordCount(text),
     file_type |-> IF filename[2] = ".txt" THEN "txt" ELSE "exe",
     upload_timestamp |-> t,
     paragraphs |-> Len(SelectSeq(SplitLines(text), LAMBDA p : Strip(p) # <<>>))]

\* lines 151-157
Uploaded(filename, unique_id, metadata) ==
    [status |-> 200,
     body |-> [message |-> <<"File uploaded and processed successfully!">>,
               document_id |-> unique_id, file_name |-> filename,
               word_count |-> metadata.word_count, paragraphs |-> metadata.paragraphs]]

\* lines 111-134: the request is read, the file processed, the id and the
\* metadata built at second t
UploadStart(req, saveFails, t) ==
    LET early(http) == [pc |-> "returned", op |-> "upload", req |-> req,
                        saveFails |-> saveFails, stored |-> FALSE, http |-> http]
        r == process_uploaded_file(req.filename, req.text, saveFails)
    IN  IF ~req.hasFile
        THEN early([status |-> 400, body |-> [message |-> <<"No file part">>]])
        ELSE IF req.filename = NoFilename
        THEN early([status |-> 400, body |-> [message |-> <<"No selected file">>]])
        ELSE IF r.failed
        THEN early([status |-> 400, body |-> [error |-> r.error]])
        ELSE [pc |-> "store", op |-> "upload", req |-> req, saveFails |-> saveFails,
              unique_id |-> UniqueId(t),
              metadata |-> UploadMetadata(req.filename, r.text, t)]

\* lines 146-158: the response for what upsert_embeddings returned
UploadResponse(up, ok) ==
    IF ~ok
    THEN [status |-> 500,
          body |-> [error |-> <<"Failed to store document in vector database.">>]]
    ELSE Uploaded(up.req.filename, up.unique_id, up.metadata)

\* the requests of /api/upload: no 'document' part, an empty file name, a file
UploadRequests ==
    {[hasFile |-> FALSE, filename |-> NoFilename, text |-> <<>>],
     [hasFile |-> TRUE, filename |-> NoFilename, text |-> <<>>]}
    \cup [hasFile : {TRUE}, filename : {F_txt, F_exe}, text : UploadTexts]

UploadCall(h) ==
    /\ handlers[h].pc = "idle"
    /\ \E req \in UploadRequests, saveFails \in BOOLEAN :
        handlers' = [handlers EXCEPT ![h] = UploadStart(req, saveFails, clock)]
    /\ UNCHANGED <<store, last, process, clock, ingest, docsdir>>

\* fails: the store raises
UploadStore(h) ==
    /\ handlers[h].pc = "store"
    /\ \E fails \in BOOLEAN :
        LET up == handlers[h]
            r == upsert_embeddings(store, <<up.req.text>>, <<up.metadata>>,
                                   <<up.unique_id>>, fails)
        IN  /\ store' = r.store
            /\ handlers' = [handlers EXCEPT ![h] =
                                [pc |-> "returned", op |-> "upload", req |-> up.req,
                                 saveFails |-> up.saveFails, stored |-> r.ok,
                                 http |-> UploadResponse(up, r.ok)]]
    /\ UNCHANGED <<last, process, clock, ingest, docsdir>>

NextUpload ==
    \/ \E h \in Threads : UploadCall(h)
    \/ \E h \in Threads : UploadStore(h)
    \/ \E h \in Threads : ThreadReturn(h)
    \/ Tick

SpecUpload == Init /\ [][NextUpload]_vars

(***************************************************************************)
(* app.py: the /api/final-content and /api/final-form endpoints, served by *)
(* the threads of app.run, one caller per thread.  A document is the runs  *)
(* of its paragraph, each a text; the two files of ./docs are shared by    *)
(* all requests.  final_content is three steps: up to the writing of       *)
(* localfile.docx, the filling and saving of Output2.docx, the reading of  *)
(* Output2.docx for the preview; final_form is one.                        *)
(***************************************************************************)
\* the forms table and the templates behind its links
FormIds == {"f1", "f2"}
Template(form_id) ==
    IF form_id = "f1" THEN << <<"#", "1", "0", " ", "#", "1">> >>
    ELSE << <<"t", "o", " ">>, <<"#", "1">> >>

\* the numeric fields of the request bodies
V_a == (1 :> <<"A">>)
V_b == (1 :> <<"B">> @@ 10 :> <<"C">>)
FormFields == {V_a, V_b}

\* the requests of /api/final-content: no form_id, an unknown one, a form
FinalContentRequests ==
    {[hasFormId |-> FALSE, form_id |-> "", fields |-> V_a]}
    \cup [hasFormId : {TRUE}, form_id : FormIds \cup {"fx"}, fields : FormFields]

\* str.replace(old, new)
RECURSIVE Replace(_, _, _)
Replace(s, old, new) ==
    IF s = <<>> THEN <<>>
    ELSE IF Len(s) >= Len(old) /\ SubSeq(s, 1, Len(old)) = old
    THEN new \o Replace(SubSeq(s, Len(old) + 1, Len(s)), old, new)
    ELSE <<Head(s)>> \o Replace(Tail(s), old, new)

RECURSIVE Digits(_)
Digits(k) == IF k < 10 THEN <<ToString(k)>> ELSE Digits(k \div 10) \o <<ToString(k % 10)>>

\* lines 563-564: the numeric keys, highest first
RECURSIVE SortedReverse(_)
SortedReverse(keys) ==
    IF keys = {} THEN <<>>
    ELSE LET top == CHOOSE k \in keys : \A j \in keys : j <= k
         IN  <<top>> \o SortedReverse(keys \ {top})

\* lines 567-575: the placeholders #key replaced run by run, key by key
RECURSIVE FillForm(_, _, _)
FillForm(doc, numeric_keys, fields) ==
    IF numeric_keys = <<>> THEN doc
    ELSE FillForm([r \in 1..Len(doc) |->
                      Replace(doc[r], <<"#">> \o Digits(Head(numeric_keys)),
                              fields[Head(numeric_keys)])],
                  Tail(numeric_keys), fields)

\* mammoth.convert_to_html (line 583)
Html(doc) == <<"<", "p", ">">> \o Join(<<>>, doc) \o <<"<", "/", "p", ">">>

\* a final_content request that ends before it writes a file
FinalContentEarly(req, http) ==
    [pc |-> "returned", op |-> "final_content", req |-> req, own |-> FALSE,
     produced |-> <<>>, http |-> http]

\* the caller of thread h may send a request: it has none in progress
CallerReady(h) ==
    \/ handlers[h].pc = "idle"
    \/ (handlers[h].pc = "returned" /\ handlers[h].op = "final_content")

\* lines 531-557; downloadFails: the form link does not answer 200
FinalContentCall(h) ==
    /\ CallerReady(h)
    /\ \E req \in FinalContentRequests, downloadFails \in BOOLEAN :
        IF ~req.hasFormId
        THEN /\ handlers' = [handlers EXCEPT ![h] = FinalContentEarly(req,
                    [status |-> 400, body |-> [error |-> <<"Form ID is required">>]])]
             /\ UNCHANGED docsdir
        ELSE IF req.form_id \notin FormIds
        THEN /\ handlers' = [handlers EXCEPT ![h] = FinalContentEarly(req,
                    [status |-> 404, body |-> [error |-> <<"Form not found">>]])]
             /\ UNCHANGED docsdir
        ELSE IF downloadFails
        THEN /\ handlers' = [handlers EXCEPT ![h] = FinalContentEarly(req,
                    [status |-> 500,
                     body |-> [error |-> <<"Could not download form template">>]])]
             /\ UNCHANGED docsdir
        ELSE /\ handlers' = [handlers EXCEPT ![h] =
                                [pc |-> "template", op |-> "final_content", req |-> req]]
             /\ docsdir' = [docsdir EXCEPT !.localfile =
                                         [exists |-> TRUE, doc |-> Template(req.form_id)]]
    /\ UNCHANGED <<store, last, process, clock, ingest>>

\* lines 560-579: localfile.docx is read, filled and saved as Output2.docx
FinalContentSave(h) ==
    /\ handlers[h].pc = "template"
    /\ LET fields == handlers[h].req.fields
           doc == FillForm(docsdir.localfile.doc, SortedReverse(DOMAIN fields), fields)
       IN  /\ docsdir' = [docsdir EXCEPT !.output = [exists |-> TRUE, doc |-> doc]]
           /\ handlers' = [handlers EXCEPT ![h] =
                               [pc |-> "saved", op |-> "final_content", req |-> @.req,
                                produced |-> doc]]
    /\ UNCHANGED <<store, last, process, clock, ingest>>

\* lines 582-586: Output2.docx is read again for the preview
FinalContentPreview(h) ==
    /\ handlers[h].pc = "saved"
    /\ handlers' = [handlers EXCEPT ![h] =
                        [pc |-> "returned", op |-> "final_content", req |-> @.req,
                         own |-> TRUE, produced |-> @.produced,
                         http |-> [status |-> 200,
                                   body |-> [content |-> Html(docsdir.output.doc)]]]]
    /\ UNCHANGED <<store, last, process, clock, ingest, docsdir>>

\* lines 591-602.  own, produced: whether the caller's latest final_content
\* saved a document, and which
FinalForm(h) ==
    /\ CallerReady(h)
    /\ LET own == handlers[h].pc = "returned" /\ handlers[h].own
           produced == IF own THEN handlers[h].produced ELSE <<>>
       IN  handlers' = [handlers EXCEPT ![h] =
               [pc |-> "returned", op |-> "final_form", own |-> own,
                produced |-> produced,
                http |-> IF ~docsdir.output.exists
                         THEN [status |-> 404,
                               body |-> [error |-> <<"Document not found">>]]
                         ELSE [status |-> 200, file |-> docsdir.output.doc]]]
    /\ UNCHANGED <<store, last, process, clock, ingest, docsdir>>

NextForms ==
    \/ \E h \in Threads : FinalContentCall(h)
    \/ \E h \in Threads : FinalContentSave(h)
    \/ \E h \in Threads : FinalContentPreview(h)
    \/ \E h \in Threads : FinalForm(h)
    \/ \E h \in Threads : ThreadReturn(h)

SpecForms == Init /\ [][NextForms]_vars

(***************************************************************************)
(* Properties of the chunk store and the retriever.                        *)
(***************************************************************************)
KeptRows(rows, similarity_threshold) ==
    {i \in 1..Len(rows) : ScaleOne - rows[i].distance >= similarity_threshold}

\* C1: retrieve_documents(query, top_k, similarity_threshold) returns at most
\* top_k matches: exactly the rows the store returned whose similarity
\* (1 - distance) is >= similarity_threshold, sorted by similarity descending.
C1_RetrieveFiltersAndSorts ==
    (last.op = "retrieve" /\ last.query # <<>>) =>
        /\ Len(last.out.matches) <= last.top_k
        /\ Len(last.out.matches) =
               Cardinality(KeptRows(last.resp.rows, last.similarity_threshold))
        /\ {<<last.out.matches[i].id, last.out.matches[i].similarity>> :
                i \in 1..Len(last.out.matches)}
           = {<<last.resp.rows[i].id, ScaleOne - last.resp.rows[i].distance>> :
                i \in KeptRows(last.resp.rows, last.similarity_threshold)}
        /\ \A i \in 1..Len(last.out.matches) :
               last.out.matches[i].similarity >= last.similarity_threshold
        /\ \A i, j \in 1..Len(last.out.matches) :
               i < j => last.out.matches[i].similarity >= last.out.matches[j].similarity

\* a retrieval in which the store returned two rows and the threshold dropped one
C1_Witness ==
    /\ last.op = "retrieve"
    /\ last.query # <<>>
    /\ Len(last.resp.rows) = 2
    /\ Len(last.out.matches) = 1

IsSingleUpsert ==
    /\ last.op = "upsert"
    /\ Len(last.ids) = 1
    /\ Len(last.texts) = 1
    /\ Len(last.metadatas) = 1

\* C2: calling upsert twice with the same id leaves exactly one stored chunk
\* under that id, and it carries the text and metadata of the second call.
C2_SecondUpsertOverwrites ==
    (IsSingleUpsert /\ ~last.fails /\ last.ids[1] \in StoreIds(last.pre)) =>
        RowsOf(store, last.ids[1]) =
            {[id |-> last.ids[1], text |-> last.texts[1], meta |-> last.metadatas[1]]}

\* C3: after an upsert of (id, text, metadata) that reports success, get(id)
\* returns exactly that text and that metadata.
C3_UpsertThenGet ==
    (IsSingleUpsert /\ last.ok) =>
        retrieve_document_by_id(store, last.ids[1], FALSE) =
            [id |-> last.ids[1], text |-> last.texts[1], metadata |-> last.metadatas[1]]

\* C4: after delete(id) get(id) returns the not-found value; count() is one
\* less than before the delete when the id existed and unchanged when not.
C4_DeleteThenGetAndCount ==
    (last.op = "delete" /\ last.ok) =>
        /\ retrieve_document_by_id(store, last.doc_id, FALSE) = None
        /\ get_document_count(store, FALSE) =
               get_document_count(last.pre, FALSE)
               - (IF last.doc_id \in StoreIds(last.pre) THEN 1 ELSE 0)

\* a delete of a stored id from a store of two chunks
C4_Witness ==
    /\ last.op = "delete"
    /\ last.ok
    /\ last.doc_id \in StoreIds(last.pre)
    /\ Cardinality(last.pre) = 2

(***************************************************************************)
(* Properties of the query orchestrator and the query endpoint.            *)
(***************************************************************************)
\* the last operation ran process_query: directly, or in the query endpoint
RanProcessQuery ==
    \/ last.op = "process_query"
    \/ (last.op = "query_document" /\ last.http.pq # None)

PQ == IF last.op = "process_query" THEN last.pq ELSE last.http.pq
PQ_query == IF last.op = "process_query" THEN last.query ELSE last.req.query
PQ_resp == IF last.op = "process_query" THEN last.resp ELSE last.env.resp
PQ_use_retrieved == IF last.op = "process_query" THEN last.use_retrieved_docs ELSE TRUE
PQ_provided == IF last.op = "process_query" THEN last.provided_docs ELSE <<>>

\* C5: with use_retrieved true, the chunks whose text forms the context are
\* exactly retrieve_documents(query) with the default top_k and threshold, so
\* every chunk of the context has similarity >= 0.7.
C5_ContextIsThresholdedRetrieval ==
    (RanProcessQuery /\ PQ_use_retrieved) =>
        /\ \A i \in 1..Len(PQ.documents) :
               ScaleOne - PQ.documents[i].distance >= DefaultThreshold
        /\ [i \in 1..Len(PQ.documents) |-> PQ.documents[i].id]
           = [i \in 1..Len(retrieve_documents(PQ_query, DefaultTopK, DefaultThreshold,
                                              PQ_resp).matches) |->
                retrieve_documents(PQ_query, DefaultTopK, DefaultThreshold,
                                   PQ_resp).matches[i].id]

NoChunksAvailable ==
    IF PQ_use_retrieved THEN PQ_resp.raised \/ PQ_resp.rows = <<>>
    ELSE PQ_provided = <<>>

\* C6: when no chunks are available (empty store, empty or failed retrieval,
\* or no provided chunks) process_query returns has_answer = false with the
\* no-relevant-documents message and answer_question is not invoked.
C6_NoChunksNoExtraction ==
    (RanProcessQuery /\ NoChunksAvailable) =>
        /\ PQ.aq.out = [answer |-> NoDocumentsMsg, confidence |-> 0, has_answer |-> FALSE]
        /\ PQ.aqCalls = 0
        /\ PQ.aq.modelCalls = 0

\* a query against the empty store, which answers with no rows
C6_Witness ==
    /\ RanProcessQuery
    /\ PQ_use_retrieved
    /\ store = {}
    /\ ~PQ_resp.raised
    /\ PQ_resp.rows = <<>>

\* C7: whenever process_query answers from matched chunks, its result carries
\* the source identifiers of those chunks' metadata, and the endpoint's sources
\* field lists the source of every matched chunk that has one.
C7_SourcesReported ==
    (last.op = "query_document" /\ last.http.pq # None
        /\ last.http.pq.documents # <<>> /\ last.http.pq.aq.out.has_answer) =>
        /\ "source_documents" \in DOMAIN last.http.pq.aq.out
        /\ last.http.body.sources = SourcesOf(last.http.pq.documents)

(***************************************************************************)
(* Properties of the span extractor.                                       *)
(***************************************************************************)
\* the last operation called answer_question: directly, or in process_query
RanAnswerQuestion ==
    \/ last.op = "answer_question"
    \/ (RanProcessQuery /\ PQ.aqCalls = 1)

AQ == IF last.op = "answer_question" THEN last.aq ELSE PQ.aq
AQ_m ==
    IF last.op = "query_document" THEN last.env.m ELSE last.m
AQ_question == IF last.op = "answer_question" THEN last.question ELSE PQ_query
AQ_context == IF last.op = "answer_question" THEN last.context ELSE PQ.context
AQ_max_answer_length ==
    IF last.op = "answer_question" THEN last.max_answer_length
    ELSE DefaultMaxAnswerLength
AQ_failAt ==
    IF last.op = "query_document" THEN last.env.failAt ELSE last.failAt

\* the valid candidate spans of a window: start among the top start
\* positions, end among the top end positions, not skipped by line 187, and
\* with a non-blank decoded text
WindowCandidates(ids, out, max_answer_length) ==
    {[answer |-> AnswerText(ids, p[1], p[2]),
      confidence |-> out.start_logits[p[1]] + out.end_logits[p[2]]] :
        p \in {q \in Range(TopK(out.start_logits, top_k))
                      \X Range(TopK(out.end_logits, top_k)) :
                  /\ ~InvalidSpan(q[1], q[2], max_answer_length)
                  /\ Strip(AnswerText(ids, q[1], q[2])) # <<>>}}

ChunkCandidates(m, question, chunk, max_answer_length) ==
    WindowCandidates(TokenizePair(question, chunk),
                     Forward(m, TokenizePair(question, chunk)), max_answer_length)

\* the valid candidates of chunk i of the last call, and of all its chunks
AQ_chunks == ContextChunks(AQ_question, AQ_context)
AQ_candidatesOf(i) ==
    ChunkCandidates(AQ_m, AQ_question, AQ_chunks[i], AQ_max_answer_length)
AQ_candidates == UNION {AQ_candidatesOf(i) : i \in 1..Len(AQ_chunks)}

\* the call reached the output step: the context was long enough and scoring
\* raised at no chunk
AQ_scannedAll ==
    /\ RanAnswerQuestion
    /\ ~TooShort(AQ_context)
    /\ AQ_failAt \notin 1..Len(AQ_chunks)

\* C8: the span answer_question returns is the global maximum of
\* start_score + end_score over the valid candidate spans of all chunks: it is
\* one of them and none, in any chunk, scores strictly higher.
C8_GlobalMaximum ==
    (RanAnswerQuestion /\ AQ.out.has_answer) =>
        /\ [answer |-> AQ.out.answer, confidence |-> AQ.out.confidence] \in AQ_candidates
        /\ \A c \in AQ_candidates : c.confidence <= AQ.out.confidence

\* an answer taken from a later chunk that beats every candidate of the first,
\* which has candidates
C8_Witness ==
    /\ RanAnswerQuestion
    /\ AQ.out.has_answer
    /\ Len(AQ_chunks) >= 2
    /\ AQ_candidatesOf(1) # {}
    /\ \A c \in AQ_candidatesOf(1) : c.confidence < AQ.out.confidence

\* C9: at the output step answer_question returns has_answer = true exactly
\* when a valid non-empty span was found, with that span's text and score;
\* otherwise has_answer = false, the couldn't-find message and confidence 0.
\* The -infinity sentinel is never returned.
C9_AnswerIffSpanFound ==
    /\ RanAnswerQuestion => AQ.out.confidence # NegInf
    /\ AQ_scannedAll =>
        /\ AQ.out.has_answer <=> (AQ_candidates # {})
        /\ AQ.out.has_answer =>
               [answer |-> AQ.out.answer, confidence |-> AQ.out.confidence]
                   \in AQ_candidates
        /\ ~AQ.out.has_answer =>
               AQ.out = [answer |-> NoAnswerMsg, confidence |-> 0, has_answer |-> FALSE]

\* every chunk was scored and no valid span was found
C9_Witness ==
    /\ AQ_scannedAll
    /\ AQ_candidates = {}
    /\ ~AQ.out.has_answer
    /\ AQ.modelCalls >= 1

\* C10: on a context that is empty or shorter than 5 characters
\* answer_question returns has_answer = false with the no-context message and
\* does not call the scoring model, whatever the question.
C10_ShortContext ==
    (RanAnswerQuestion /\ Len(AQ_context) < MinContextChars) =>
        /\ AQ.out = [answer |-> NoContextMsg, confidence |-> 0, has_answer |-> FALSE]
        /\ AQ.modelCalls = 0

\* a direct call with a context of four characters, none of them blank at the ends
C10_Witness ==
    /\ last.op = "answer_question"
    /\ Len(last.context) = MinContextChars - 1
    /\ Strip(last.context) = last.context
    /\ last.aq.out.answer = NoContextMsg

(***************************************************************************)
(* Properties of the failure paths.                                        *)
(***************************************************************************)
\* C11: retrieve_documents with an empty query returns an empty match list
\* and makes no call to the chunk store.
C11_EmptyQueryNoStoreCall ==
    (last.op = "retrieve" /\ last.query = <<>>) =>
        /\ last.out.matches = <<>>
        /\ last.out.storeCalls = 0
        /\ ~last.out.error

\* an empty query while the store holds a chunk it would have returned
C11_Witness ==
    /\ last.op = "retrieve"
    /\ last.query = <<>>
    /\ ~last.resp.raised
    /\ \E i \in 1..Len(last.resp.rows) :
           ScaleOne - last.resp.rows[i].distance >= last.similarity_threshold

\* empty texts, or ids / metadatas given with another length than texts
Malformed(texts, metadatas, ids) ==
    \/ texts = <<>>
    \/ (ids # <<>> /\ Len(ids) # Len(texts))
    \/ (metadatas # <<>> /\ Len(metadatas) # Len(texts))

C13_GetMissingIsNone ==
    (last.op = "get" /\ last.doc_id \notin StoreIds(store)) => last.out = None

\* a lookup of a missing id in a store that holds another chunk and answers
C13_Witness ==
    /\ last.op = "get"
    /\ ~last.fails
    /\ store # {}
    /\ last.doc_id \notin StoreIds(store)
    /\ last.out = None

\* C14: when the chunk store fails during retrieve_documents the call returns
\* an empty match list together with an error marker.
C14_StoreFailureMarked ==
    (last.op = "retrieve" /\ last.query # <<>> /\ last.resp.raised) =>
        /\ last.out.matches = <<>>
        /\ last.out.error
        /\ last.out.storeCalls = 1

\* the store holds chunks and raises on a query with a positive top_k
C14_Witness ==
    /\ last.op = "retrieve"
    /\ last.query # <<>>
    /\ last.top_k > 0
    /\ store # {}
    /\ last.resp.raised
    /\ last.out.error

\* scoring raised at one of the chunks of the last call
AQ_scoringFailed ==
    /\ RanAnswerQuestion
    /\ ~TooShort(AQ_context)
    /\ AQ_failAt \in 1..Len(AQ_chunks)

\* C15: a scoring error at any chunk makes the whole answer_question call
\* return has_answer = false with the error message in answer; a best span
\* found in earlier chunks is not returned, and no later chunk is scored.
C15_ScoringErrorPerCall ==
    AQ_scoringFailed =>
        /\ AQ.out = [answer |-> QuestionErrorMsg, confidence |-> 0, has_answer |-> FALSE]
        /\ AQ.modelCalls = AQ_failAt

\* scoring raises at the second chunk after the first gave a valid span
C15_Witness ==
    /\ AQ_scoringFailed
    /\ AQ_failAt = 2
    /\ AQ_candidatesOf(1) # {}
    /\ ~AQ.out.has_answer

\* the dict process_query and answer_question return
IsAnswerDict(d) ==
    /\ DOMAIN d = {"answer", "confidence", "has_answer"}
    /\ d.has_answer \in BOOLEAN

\* C16: no public pipeline operation lets an exception of the store or of the
\* scoring model reach its caller: under such a failure upsert_embeddings and
\* delete_document return False and leave the store alone, query_by_text and
\* retrieve_document_by_id return None, get_document_count returns 0,
\* retrieve_documents returns no matches with the error marker, and
\* answer_question and process_query return an answer dict with has_answer
\* false.
C16_FailuresAreSoft ==
    /\ (last.op = "upsert" /\ last.fails) => (~last.ok /\ store = last.pre)
    /\ (last.op = "query_by_text" /\ last.resp.raised) => last.out = None
    /\ (last.op = "delete" /\ last.fails) => (~last.ok /\ store = last.pre)
    /\ (last.op = "count" /\ last.fails) => last.out = 0
    /\ (last.op = "retrieve" /\ last.query # <<>> /\ last.resp.raised) =>
           last.out = [matches |-> <<>>, error |-> TRUE, storeCalls |-> 1]
    /\ (last.op = "get" /\ last.fails) => last.out = None
    /\ RanAnswerQuestion => IsAnswerDict(AQ.out)
    /\ AQ_scoringFailed => ~AQ.out.has_answer
    /\ RanProcessQuery => IsAnswerDict(PQ.aq.out)
    /\ (RanProcessQuery /\ PQ_use_retrieved /\ PQ_resp.raised) =>
           PQ.aq.out = [answer |-> NoDocumentsMsg, confidence |-> 0, has_answer |-> FALSE]

\* the store holds chunks and raises under query_by_text with a positive top_k
C16_Witness ==
    /\ last.op = "query_by_text"
    /\ last.top_k > 0
    /\ store # {}
    /\ last.resp.raised
    /\ last.out = None

(***************************************************************************)
(* Properties of the process.                                              *)
(***************************************************************************)
\* C17: across any sequence of query requests in one process the scoring
\* model and the chunk-store handle are initialized at most once, and every
\* query handler uses that single shared instance.
C17_InitializedOnce ==
    /\ process.models <= 1
    /\ process.collections <= 1
    /\ (last.op = "query_document" /\ last.built) =>
           (last.model = 1 /\ last.collection = 1)

(***************************************************************************)
(* Properties of batch ingestion.                                          *)
(***************************************************************************)
\* the offsets of the batches of a request
Batches(documents) == {i \in 0..(Len(documents) - 1) : i % batch_size = 0}

\* the places of the log that hold the attempts of batch b
AttemptsOf(log, b) == {k \in 1..Len(log) : log[k].batch = b}

\* the batches the loop has entered so far
EnteredBatches ==
    IF ingest.pc = "attempt"
    THEN {b \in Batches(ingest.documents) : b <= ingest.i}
    ELSE Batches(ingest.documents)

\* C18: in batch ingestion a batch whose every attempt fails does not abort
\* the run: every later batch of the request is still attempted, in order,
\* whatever the outcome of the earlier batches.
C18_FailedBatchDoesNotAbort ==
    (ingest.pc \in {"attempt", "done"}) =>
        /\ \A k1, k2 \in 1..Len(ingest.log) :
               k1 < k2 => ingest.log[k1].batch <= ingest.log[k2].batch
        /\ \A b \in EnteredBatches :
               (ingest.pc = "done" \/ b < ingest.i) => AttemptsOf(ingest.log, b) # {}
        /\ \A k \in 1..Len(ingest.log) : ingest.log[k].batch \in EnteredBatches
        /\ (ingest.pc = "done" /\ ingest.status = 200) =>
               \A b \in Batches(ingest.documents) : AttemptsOf(ingest.log, b) # {}

\* a finished run of three batches whose first batch failed three times and
\* whose last batch was inserted
C18_Witness ==
    /\ ingest.pc = "done"
    /\ Len(ingest.documents) = 5
    /\ Cardinality(AttemptsOf(ingest.log, 0)) = max_retries
    /\ \A k \in AttemptsOf(ingest.log, 0) : ~ingest.log[k].ok
    /\ \E k \in AttemptsOf(ingest.log, 4) : ingest.log[k].ok

\* the attempts of every entered batch: numbered from 0 without gaps, at most
\* max_retries, none after a success, and all max_retries made before the
\* loop gives the batch up
AttemptsBounded ==
    (ingest.pc \in {"attempt", "done"}) =>
        \A b \in EnteredBatches :
            LET ks == AttemptsOf(ingest.log, b)
                left == ingest.pc = "done" \/ b < ingest.i
            IN  /\ Cardinality(ks) <= max_retries
                /\ left => Cardinality(ks) >= 1
                /\ {ingest.log[k].attempt : k \in ks} = 0..(Cardinality(ks) - 1)
                /\ Cardinality({k \in ks : ingest.log[k].ok}) <= 1
                /\ \A k \in ks :
                       ingest.log[k].ok => ingest.log[k].attempt = Cardinality(ks) - 1
                /\ (left /\ \A k \in ks : ~ingest.log[k].ok) =>
                       Cardinality(ks) = max_retries
                /\ (~left) => (ingest.attempt = Cardinality(ks)
                                 /\ \A k \in ks : ~ingest.log[k].ok)

\* C19: in batch ingestion each batch is attempted at least once and at most
\* max_retries (3) times, attempts stop at the first success, so a batch is
\* inserted at most once, and the run terminates after the last batch.
C19_BoundedRetriesThenDone ==
    /\ []AttemptsBounded
    /\ (ingest.pc = "attempt") ~> (ingest.pc = "done" /\ ingest.status = 200)

\* a finished run in which a batch was inserted at its third attempt and
\* another batch failed three times
C19_Witness ==
    /\ ingest.pc = "done"
    /\ \E k \in 1..Len(ingest.log) : ingest.log[k].ok /\ ingest.log[k].attempt = 2
    /\ \E b \in Batches(ingest.documents) :
           /\ Cardinality(AttemptsOf(ingest.log, b)) = max_retries
           /\ \A k \in AttemptsOf(ingest.log, b) : ~ingest.log[k].ok

(***************************************************************************)
(* Properties of requests in progress at the same time.                    *)
(***************************************************************************)
\* two calls that have returned and were in progress at the same time
Overlapped(g, h) ==
    /\ g # h
    /\ handlers[g].pc = "returned"
    /\ handlers[h].pc = "returned"
    /\ h \in handlers[g].with
    /\ g \in handlers[h].with

ChunkOf(h) == [id |-> handlers[h].id, text |-> handlers[h].text, meta |-> handlers[h].meta]

\* overlapping successful upserts to different ids are both stored as given
UpsertsBothTakeEffect ==
    \A g, h \in Threads :
        (/\ Overlapped(g, h)
         /\ handlers[g].op = "upsert" /\ handlers[g].ok
         /\ handlers[h].op = "upsert" /\ handlers[h].ok
         /\ handlers[g].id # handlers[h].id) =>
            /\ RowsOf(store, handlers[g].id) = {ChunkOf(g)}
            /\ RowsOf(store, handlers[h].id) = {ChunkOf(h)}

\* a query overlapping an upsert saw the store before or after the upsert,
\* and every row it returned is a whole row of what it saw
NoTornRead ==
    \A q, u \in Threads :
        (Overlapped(q, u) /\ handlers[q].op = "query" /\ handlers[u].op = "upsert") =>
            /\ handlers[q].seen \in {handlers[u].pre, handlers[u].post}
            /\ \A i \in 1..Len(handlers[q].resp.rows) :
                   [id |-> handlers[q].resp.rows[i].id,
                    text |-> handlers[q].resp.rows[i].text,
                    meta |-> handlers[q].resp.rows[i].meta] \in handlers[q].seen

\* C20: concurrent upserts to different ids both take effect without
\* altering each other's chunk, and a query running concurrently with an
\* upsert observes either the whole pre-upsert store or the whole
\* post-upsert store, never a partially written chunk.
C20_ConcurrentUpsertsAndQueries ==
    /\ UpsertsBothTakeEffect
    /\ NoTornRead

(***************************************************************************)
(* Properties of the candidate spans and of the chunks.                    *)
(***************************************************************************)
\* the window of chunk i of the last call, its logits and the spans scored
AQ_ids(i) == TokenizePair(AQ_question, AQ_chunks[i])
AQ_logits(i) == Forward(AQ_m, AQ_ids(i))
AQ_scored(i) ==
    ScoredSpans(TopK(AQ_logits(i).start_logits, top_k),
                TopK(AQ_logits(i).end_logits, top_k), AQ_max_answer_length)

\* position i is among the k highest of logits: fewer than k positions score
\* strictly higher
AmongTop(logits, k, i) ==
    /\ i \in 1..Len(logits)
    /\ Cardinality({j \in 1..Len(logits) : logits[j] > logits[i]}) < k

\* C23: every candidate span answer_question scores, and hence the span it
\* returns, has start <= end and at most max_answer_length tokens, with start
\* among the top start positions and end among the top end positions of the
\* same chunk.
C23_ScoredSpansValid ==
    (RanAnswerQuestion /\ ~TooShort(AQ_context)) =>
        /\ \A i \in 1..Len(AQ_chunks) : \A p \in AQ_scored(i) :
               /\ p[1] <= p[2]
               /\ p[2] - p[1] + 1 <= AQ_max_answer_length
               /\ AmongTop(AQ_logits(i).start_logits, top_k, p[1])
               /\ AmongTop(AQ_logits(i).end_logits, top_k, p[2])
        /\ AQ.out.has_answer =>
               \E i \in 1..Len(AQ_chunks) : \E p \in AQ_scored(i) :
                   /\ AQ.out.answer = AnswerText(AQ_ids(i), p[1], p[2])
                   /\ AQ.out.confidence = AQ_logits(i).start_logits[p[1]]
                                           + AQ_logits(i).end_logits[p[2]]

\* an answer returned by a call whose top positions also pair into a span
\* longer than max_answer_length and into a reversed one, both skipped
C23_Witness ==
    /\ RanAnswerQuestion
    /\ AQ.out.has_answer
    /\ \E i \in 1..Len(AQ_chunks) :
         \E s1, s2 \in Range(TopK(AQ_logits(i).start_logits, top_k)) :
           \E e1, e2 \in Range(TopK(AQ_logits(i).end_logits, top_k)) :
               /\ s1 <= e1 /\ e1 - s1 + 1 > AQ_max_answer_length
               /\ e2 < s2
               /\ <<s1, e1>> \notin AQ_scored(i)
               /\ <<s2, e2>> \notin AQ_scored(i)

\* C24: every chunk produced by the partitioning has a token count within the
\* budget window_length - question_token_count - special_token_overhead, also
\* when a single paragraph alone exceeds the budget.
C24_ChunksWithinBudget ==
    (RanAnswerQuestion /\ ~TooShort(AQ_context)) =>
        \A i \in 1..Len(AQ_chunks) :
            Len(Encode(AQ_chunks[i])) <= MaxContextTokens(AQ_question)

\* the non-blank paragraphs of a context (lines 122-124), and the paragraphs
\* of the chunks, chunk after chunk
NonBlankParagraphs(context) ==
    SelectSeq(SplitLines(context), LAMBDA p : Strip(p) # <<>>)

RECURSIVE ChunkParagraphs(_)
ChunkParagraphs(chunks) ==
    IF chunks = <<>> THEN <<>>
    ELSE SplitLines(Head(chunks)) \o ChunkParagraphs(Tail(chunks))

\* C25: the chunks tile the context: the paragraphs of the chunks, taken
\* chunk after chunk, are exactly the non-blank paragraphs of the context in
\* their order, each once; and the scoring model runs once per chunk (up to
\* and including the chunk at which it raises, when it does).
C25_ChunksTileContext ==
    (RanAnswerQuestion /\ ~TooShort(AQ_context)) =>
        /\ ChunkParagraphs(AQ_chunks) = NonBlankParagraphs(AQ_context)
        /\ \A i \in 1..Len(AQ_chunks) : AQ_chunks[i] # <<>>
        /\ AQ.modelCalls = IF AQ_failAt \in 1..Len(AQ_chunks) THEN AQ_failAt
                           ELSE Len(AQ_chunks)

\* a context with a blank paragraph, packed into a chunk of two paragraphs
\* followed by another chunk, each scored
C25_Witness ==
    /\ AQ_scannedAll
    /\ Len(NonBlankParagraphs(AQ_context)) < Len(SplitLines(AQ_context))
    /\ Len(AQ_chunks) >= 2
    /\ Len(SplitLines(AQ_chunks[1])) = 2
    /\ AQ.modelCalls = Len(AQ_chunks)

(***************************************************************************)
(* Properties of the /api/chat endpoint.                                   *)
(***************************************************************************)
\* what the retrieval of the last chat request returned
Chat_matches ==
    retrieve_documents(last.req.input, ChatTopK, DefaultThreshold, last.resp).matches

\* C21: every chat request that carries an input is answered with a body
\* holding a response string: the fixed not-enough-information message when
\* the retrieval yields no match, a generated response when it yields one.
C21_ChatAnswersWithResponse ==
    (last.op = "chat" /\ last.req.hasInput) =>
        /\ "response" \in DOMAIN last.http.body
        /\ (Chat_matches = <<>>) <=> (last.http.body.response = NotEnoughInfoMsg)

(***************************************************************************)
(* Properties of the response of batch ingestion.                          *)
(***************************************************************************)
\* C27: the embed-documents endpoint answers 'Documents embedded
\* successfully!' with status 200 only if every batch of the request was
\* inserted: a request in which some batch exhausted its retries does not
\* report success.
C27_SuccessOnlyIfAllInserted ==
    (/\ ingest.pc = "done"
     /\ ingest.status = 200
     /\ ingest.body = [message |-> <<"Documents embedded successfully!">>]) =>
        \A b \in Batches(ingest.documents) :
            \E k \in AttemptsOf(ingest.log, b) : ingest.log[k].ok

(***************************************************************************)
(* Properties of the /api/upload endpoint.                                 *)
(***************************************************************************)
\* thread h has answered an upload request
Answered(h) == handlers[h].pc = "returned" /\ handlers[h].op = "upload"

\* thread h has answered the upload of a valid text file that was saved and
\* stored
UploadedValidText(h) ==
    /\ Answered(h)
    /\ handlers[h].req.hasFile
    /\ handlers[h].req.filename = F_txt
    /\ WordCount(handlers[h].req.text) >= MinWords
    /\ ~handlers[h].saveFails
    /\ handlers[h].stored

\* C22: a successful upload of a valid text document responds with status 200
\* and the message 'File uploaded successfully!'.
C22_UploadMessage ==
    \A h \in Threads :
        UploadedValidText(h) =>
            /\ handlers[h].http.status = 200
            /\ handlers[h].http.body.message = <<"File uploaded successfully!">>

\* thread h has answered an upload request with success
UploadSucceeded(h) == Answered(h) /\ handlers[h].http.status = 200

\* C26: any two upload requests that both receive a success response leave
\* two distinct chunks in the store, under two different ids, also when they
\* are handled within the same clock second or concurrently.
C26_UploadsLeaveDistinctChunks ==
    \A g, h \in Threads :
        (g # h /\ UploadSucceeded(g) /\ UploadSucceeded(h)) =>
            /\ handlers[g].http.body.document_id # handlers[h].http.body.document_id
            /\ Cardinality({row \in store :
                               row.id \in {handlers[g].http.body.document_id,
                                           handlers[h].http.body.document_id}}) = 2

(***************************************************************************)
(* Properties of the form endpoints.                                       *)
(***************************************************************************)
\* C28: under any interleaving of final_content and final_form requests from
\* several callers, the document final_form sends to a caller is the one
\* produced by that caller's own most recent final_content request.
C28_FinalFormSendsOwnDocument ==
    \A h \in Threads :
        (/\ handlers[h].pc = "returned"
         /\ handlers[h].op = "final_form"
         /\ handlers[h].own) =>
            /\ handlers[h].http.status = 200
            /\ handlers[h].http.file = handlers[h].produced

====
